---- MODULE Spec2Model ----
(***************************************************************************)
(* Model of the scenario store of the Conscious Spending Planner:          *)
(* ScenarioManager (js/core/scenario-manager.js) over StorageManager       *)
(* (js/utils/storage.js), driven by the handlers of ConsciousSpendingApp   *)
(* (js/main.js).                                                           *)
(*                                                                         *)
(* JavaScript objects are modelled by reference: `scenarios` maps a name   *)
(* to a reference and `heap` maps a reference to the object's fields, so   *)
(* that an in-place edit through one name is seen through every name that  *)
(* holds the same reference.  localStorage holds JSON text, that is plain  *)
(* values without identity: `stored` maps a name to the fields.            *)
(*                                                                         *)
(* A scenario object is abstracted to one representative field per        *)
(* subtree: income.salary (person1.salary), expenses.rent                   *)
(* (ramitCategories.fixedCosts.housing.rent.amount) and household.          *)
(* `new Date().toISOString()` is abstracted to the single token TS.        *)
(*                                                                         *)
(* The calculators, TaxCalculator (js/utils/tax-calculator.js) and         *)
(* HouseholdCalculator (js/main.js), are functions of their arguments;     *)
(* they are modelled by operators, applied by the actions of TaxSpec and   *)
(* CalcSpec to arguments drawn from bounded sets.  Incomes are whole       *)
(* dollars, rates are counted in 1/10000 and computed amounts in 1/10000   *)
(* of a dollar, so that every product the code forms is an integer and     *)
(* Math.round(x * 100) / 100 is rounding to a multiple of 100.  The        *)
(* arithmetic is exact: the representation error of IEEE doubles is not    *)
(* modelled.                                                               *)
(*                                                                         *)
(* The income and expense forms of ConsciousSpendingApp are modelled in    *)
(* FormSpec over two scenarios that keep the nesting of the code           *)
(* (income.person1, expenses.ramitCategories.fixedCosts.housing): an       *)
(* input holds text, getInputValue parses it, and the two debounce timers  *)
(* hold the time left in ms.  The blur handler, which saves the current    *)
(* scenario object without reading the form, is left out.                  *)
(***************************************************************************)
EXTENDS Integers, Sequences, FiniteSets, TLC

VARIABLES scenarios,        \* ScenarioManager.scenarios: name -> reference
          heap,             \* the objects `scenarios` refers to
          currentScenario,  \* ScenarioManager.currentScenario
          stored,           \* localStorage['conscious-spending-data'], parsed
          fired,            \* triggerCallbacks calls made by the last operation
          lastOp,           \* the last operation, its arguments and its outcome
          failures,         \* localStorage writes that have thrown so far
          lastCall,         \* the last call of a calculator function: name, arguments, outcome
          calc,             \* the HouseholdCalculator: currentScenario and calculations
          firstResult,      \* what the first call of calculateScenario was given and returned
          inputs,           \* the value of each input of the income and expense forms
          incomeChangeTimeout,   \* ConsciousSpendingApp.incomeChangeTimeout: time left, or NoTimeout
          expenseChangeTimeout,  \* ConsciousSpendingApp.expenseChangeTimeout: time left, or NoTimeout
          burst             \* the run of edits in progress: time since the last edit, whether
                            \* an update was made, the scenario current at the last edit

storeVars == <<scenarios, heap, currentScenario, stored, fired, lastOp, failures>>

formVars == <<inputs, incomeChangeTimeout, expenseChangeTimeout, burst>>

vars == <<scenarios, heap, currentScenario, stored, fired, lastOp, failures, lastCall, calc,
          firstResult, inputs, incomeChangeTimeout, expenseChangeTimeout, burst>>

----------------------------------------------------------------------------
(* Bounds *)

\* localStorage writes that may throw in one run
MaxFailures == 1

----------------------------------------------------------------------------
(* Values *)

\* names that can be own keys of the collection
OwnNames == {"baseline", "optimistic", "conservative", "plan"}

\* a name every plain object inherits from Object.prototype
InheritedNames == {"toString"}

Names == OwnNames \cup InheritedNames

\* fixed enumeration of the own names, used to number freshly parsed objects
NameSeq == <<"baseline", "optimistic", "conservative", "plan">>

NameIdx(n) == CHOOSE i \in 1..Len(NameSeq) : NameSeq[i] = n

MaxRefs == Len(NameSeq) + 1

Refs == 1..MaxRefs

\* results of a property lookup that is not a scenario object
UNDEFINED == 0
PROTO == -1

NULL == "null"
TS == "ts"
ABSENT == "absent"

EmptyMap == [n \in {} |-> 0]

NoFired == [onScenarioChange |-> 0, onScenarioSave |-> 0, onScenarioDelete |-> 0]

\* no calculator function has been called yet
NoCall == [fn |-> "none"]

\* the reference null, among the references 1, 2, ... to scenario objects
NullRef == 0

\* HouseholdCalculator after its constructor: currentScenario = null, calculations = {}
NewCalculator == [currentScenario |-> NullRef, calculations |-> [kind |-> "empty"]]

\* calculateScenario has not been called yet
NoResult == [kind |-> "none"]

\* no timeout is pending: the value of a timeout variable before setTimeout
\* and after the callback ran
NoTimeout == -1

\* the delay of the form handlers' setTimeout, in ms
DebounceWindow == 300

\* the forms at rest: no edit made for the length of the window, no update
\* made since, no timeout pending
AtRest == [sinceEdit |-> DebounceWindow, updated |-> FALSE, editedUnder |-> NULL]

\* the forms before any value is loaded into them
FormIdle ==
    /\ inputs = EmptyMap
    /\ incomeChangeTimeout = NoTimeout
    /\ expenseChangeTimeout = NoTimeout
    /\ burst = AtRest

createBaselineScenario ==
    [metadata |-> [name |-> "Baseline 2025",
                   description |-> <<"Current income and spending patterns">>,
                   created |-> TS, lastModified |-> TS],
     household |-> [state |-> "CA", filingStatus |-> "marriedFilingJointly"],
     income |-> [salary |-> 120000],
     expenses |-> [rent |-> 3500],
     lastModified |-> ABSENT]

createOptimisticScenario ==
    [createBaselineScenario EXCEPT
        !.income.salary = 144000,
        !.metadata.name = "Optimistic",
        !.metadata.description = <<"Higher income growth with increased savings">>]

createConservativeScenario ==
    [createBaselineScenario EXCEPT
        !.income.salary = 102000,
        !.expenses.rent = 3000,
        !.metadata.name = "Conservative",
        !.metadata.description = <<"Reduced income with tighter spending">>]

\* a scenario found in an imported file or left in storage by an earlier run
ImportedScenario ==
    [metadata |-> [name |-> "Imported",
                   description |-> <<"Imported plan">>,
                   created |-> TS, lastModified |-> TS],
     household |-> [state |-> "NY", filingStatus |-> "single"],
     income |-> [salary |-> 60000],
     expenses |-> [rent |-> 1500],
     lastModified |-> TS]

\* the files that may be imported, and the mapping each holds
ImportFiles == {"plan.json"}

FileContents(file) == ("plan" :> ImportedScenario)

\* localStorage before the first construction
InitialStored == { EmptyMap, ("plan" :> ImportedScenario) }

\* values read from the income and expense forms
FormValues == { [salary |-> 90000, rent |-> 2000] }

\* partial updates passed to updateScenario
Patches == { [income |-> [salary |-> 90000], expenses |-> [rent |-> 2000]] }

\* descriptions typed into the create-scenario form
Descriptions == { <<"My plan">> }

\* the names the operations are called with
SetCurrentNames == {"baseline", "plan", "toString"}
DeleteNames == {"baseline", "plan", "toString"}
UpdateNames == {"baseline", "plan", "toString"}

\* createNewScenario(name, description, baseScenario) is called with <<name, baseScenario>> in
CreateCalls == { <<"plan", "baseline">>, <<"plan", "plan">>, <<"plan", "toString">>,
                 <<"toString", "baseline">> }

\* duplicateScenario(scenarioName, newName) is called with <<scenarioName, newName>> in
DuplicateCalls == { <<"baseline", "plan">>, <<"plan", "plan">>, <<"toString", "plan">>,
                    <<"baseline", "toString">> }

----------------------------------------------------------------------------
(* Helpers over the program state.  A program state is a record            *)
(* [scenarios, heap, currentScenario, stored, fired, result].              *)

\* this.scenarios[name]: own key, inherited key or undefined
Lookup(scns, name) ==
    IF name \in DOMAIN scns THEN scns[name]
    ELSE IF name \in InheritedNames THEN PROTO
    ELSE UNDEFINED

Truthy(v) == v # UNDEFINED

\* a reference no live object uses
Alloc(hp) == CHOOSE r \in Refs : r \notin DOMAIN hp /\ \A q \in Refs : q \notin DOMAIN hp => r <= q

\* the first name, in NameSeq order, that refers to the object n refers to
Owner(scns, n) ==
    NameSeq[CHOOSE i \in 1..Len(NameSeq) :
                /\ NameSeq[i] \in DOMAIN scns
                /\ scns[NameSeq[i]] = scns[n]
                /\ \A j \in 1..(i-1) : NameSeq[j] \in DOMAIN scns => scns[NameSeq[j]] # scns[n]]

\* objects no name refers to any more are gone; an object's identity is only
\* which names share it, so the live objects are renumbered by their first name
Collect(P) ==
    [P EXCEPT !.scenarios = [n \in DOMAIN P.scenarios |-> NameIdx(Owner(P.scenarios, n))],
              !.heap = [r \in {NameIdx(Owner(P.scenarios, n)) : n \in DOMAIN P.scenarios} |->
                            P.heap[P.scenarios[NameSeq[r]]]]]

\* JSON.parse(JSON.stringify(d)): rebuilds every field; a key that is absent stays absent
JSONClone(d) ==
    [metadata |-> [name |-> d.metadata.name,
                   description |-> d.metadata.description,
                   created |-> d.metadata.created,
                   lastModified |-> d.metadata.lastModified],
     household |-> [state |-> d.household.state, filingStatus |-> d.household.filingStatus],
     income |-> [salary |-> d.income.salary],
     expenses |-> [rent |-> d.expenses.rent],
     lastModified |-> d.lastModified]

\* a copy that hands back the object it was given
DeepCopyRef_Alias(hp, src) == src

\* the object JSON.parse(JSON.stringify(heap[src])) returns is a new one
DeepCopyRef(hp, src) == Alloc(hp)

TriggerCallbacks(P, event) == [P EXCEPT !.fired[event] = @ + 1]

----------------------------------------------------------------------------
(* StorageManager *)

\* saveScenario(scenarioName, data); ok = localStorage.setItem did not throw
StorageSaveScenario(P, name, data, ok) ==
    IF ok
    THEN [P EXCEPT !.stored = (name :> [data EXCEPT !.lastModified = TS]) @@ P.stored,
                   !.result = "true"]
    ELSE [P EXCEPT !.result = "false", !.failed = @ + 1]

\* deleteScenario(scenarioName)
StorageDeleteScenario(P, name, ok) ==
    IF ok
    THEN [P EXCEPT !.stored = [n \in DOMAIN P.stored \ {name} |-> P.stored[n]],
                   !.result = "true"]
    ELSE [P EXCEPT !.result = "false", !.failed = @ + 1]

\* { ...importedData, ...currentData }: the spread written the other way round
MergeImported_CurrentWins(currentData, importedData) == currentData @@ importedData

\* { ...currentData, ...importedData }
MergeImported(currentData, importedData) == importedData @@ currentData

\* importScenarios(file), the reader's onload; ok = parse and setItem did not throw
StorageImportScenarios(P, M, ok) ==
    IF ok
    THEN [P EXCEPT !.stored = MergeImported(P.stored, M), !.result = "resolved"]
    ELSE [P EXCEPT !.result = "rejected", !.failed = @ + 1]

----------------------------------------------------------------------------
(* ScenarioManager *)

setCurrentScenario(P, name) ==
    IF Truthy(Lookup(P.scenarios, name))
    THEN [TriggerCallbacks([P EXCEPT !.currentScenario = name], "onScenarioChange")
            EXCEPT !.result = "true"]
    ELSE [P EXCEPT !.result = "false"]

\* saveScenario(scenarioName, scenarioData), scenarioData being the object at ref
saveScenario(P, name, ref, ok) ==
    LET P1 == [P EXCEPT !.heap[ref].metadata.lastModified = TS,
                        !.scenarios = (name :> ref) @@ P.scenarios]
        P2 == StorageSaveScenario(P1, name, P1.heap[ref], ok)
    IN  IF P2.result = "true" THEN TriggerCallbacks(P2, "onScenarioSave") ELSE P2

createDefaultScenarios(P, oks) ==
    LET r1 == Alloc(P.heap)
        H1 == (r1 :> createBaselineScenario) @@ P.heap
        r2 == Alloc(H1)
        H2 == (r2 :> createOptimisticScenario) @@ H1
        r3 == Alloc(H2)
        H3 == (r3 :> createConservativeScenario) @@ H2
        S1 == saveScenario([P EXCEPT !.heap = H3], "baseline", r1, oks[1])
        S2 == saveScenario(S1, "optimistic", r2, oks[2])
    IN  saveScenario(S2, "conservative", r3, oks[3])

\* the objects JSON.parse builds from the stored text: one new object per key
ParsedScenarios(st) == [n \in DOMAIN st |-> NameIdx(n)]

ParsedHeap(st) == [r \in {NameIdx(n) : n \in DOMAIN st} |-> JSONClone(st[NameSeq[r]])]

\* loadAllScenarios seeding the defaults whatever storage holds
loadAllScenarios_AlwaysSeed(P, oks) ==
    LET P1 == [P EXCEPT !.scenarios = ParsedScenarios(P.stored),
                        !.heap = ParsedHeap(P.stored)]
        P2 == createDefaultScenarios(P1, oks)
    IN  IF P2.currentScenario = NULL /\ Truthy(Lookup(P2.scenarios, "baseline"))
        THEN [P2 EXCEPT !.currentScenario = "baseline"]
        ELSE P2

loadAllScenarios(P, oks) ==
    LET P1 == [P EXCEPT !.scenarios = ParsedScenarios(P.stored),
                        !.heap = ParsedHeap(P.stored)]
        P2 == IF DOMAIN P1.scenarios = {} THEN createDefaultScenarios(P1, oks) ELSE P1
    IN  IF P2.currentScenario = NULL /\ Truthy(Lookup(P2.scenarios, "baseline"))
        THEN [P2 EXCEPT !.currentScenario = "baseline"]
        ELSE P2

\* createNewScenario with a name check that misses the collection's own keys
createNewScenario_NoNameCheck(P, name, description, baseScenario, ok) ==
    IF Lookup(P.scenarios, name) = PROTO
    THEN [P EXCEPT !.result = "DuplicateName"]
    ELSE
    LET b == Lookup(P.scenarios, baseScenario)
    IN  IF b = PROTO
        THEN [P EXCEPT !.result = "SyntaxError"]
        ELSE LET r  == IF b = UNDEFINED THEN Alloc(P.heap) ELSE DeepCopyRef(P.heap, b)
                 d  == IF b = UNDEFINED THEN createBaselineScenario ELSE JSONClone(P.heap[b])
                 H1 == (r :> d) @@ P.heap
                 H2 == [H1 EXCEPT ![r].metadata.name = name,
                                  ![r].metadata.description = description,
                                  ![r].metadata.created = TS,
                                  ![r].metadata.lastModified = TS]
             IN  saveScenario([P EXCEPT !.heap = H2], name, r, ok)

createNewScenario(P, name, description, baseScenario, ok) ==
    IF Truthy(Lookup(P.scenarios, name))
    THEN [P EXCEPT !.result = "DuplicateName"]
    ELSE LET b == Lookup(P.scenarios, baseScenario)
         IN  IF b = PROTO
             THEN [P EXCEPT !.result = "SyntaxError"]   \* JSON.parse(undefined)
             ELSE LET r  == IF b = UNDEFINED THEN Alloc(P.heap) ELSE DeepCopyRef(P.heap, b)
                      d  == IF b = UNDEFINED THEN createBaselineScenario ELSE JSONClone(P.heap[b])
                      H1 == (r :> d) @@ P.heap
                      H2 == [H1 EXCEPT ![r].metadata.name = name,
                                       ![r].metadata.description = description,
                                       ![r].metadata.created = TS,
                                       ![r].metadata.lastModified = TS]
                  IN  saveScenario([P EXCEPT !.heap = H2], name, r, ok)

duplicateScenario(P, scenarioName, newName, ok) ==
    LET s == Lookup(P.scenarios, scenarioName)
    IN  IF ~Truthy(s)
        THEN [P EXCEPT !.result = "SourceMissing"]
        ELSE IF Truthy(Lookup(P.scenarios, newName))
        THEN [P EXCEPT !.result = "DuplicateName"]
        ELSE IF s = PROTO
        THEN [P EXCEPT !.result = "SyntaxError"]        \* JSON.parse(undefined)
        ELSE LET r  == DeepCopyRef(P.heap, s)
                 H1 == (r :> JSONClone(P.heap[s])) @@ P.heap
                 H2 == [H1 EXCEPT ![r].metadata.name = newName,
                                  ![r].metadata.description = <<"Copy of ">> \o H1[r].metadata.description,
                                  ![r].metadata.created = TS,
                                  ![r].metadata.lastModified = TS]
             IN  saveScenario([P EXCEPT !.heap = H2], newName, r, ok)

\* deleteScenario without the guard on "baseline"
deleteScenario_NoGuard(P, scenarioName, ok) ==
    IF ~Truthy(Lookup(P.scenarios, scenarioName))
    THEN [P EXCEPT !.result = "NotFound"]
    ELSE LET P1 == [P EXCEPT !.scenarios = [n \in DOMAIN P.scenarios \ {scenarioName} |-> P.scenarios[n]]]
             P2 == StorageDeleteScenario(P1, scenarioName, ok)
         IN  IF P2.result = "true"
             THEN LET P3 == IF P2.currentScenario = scenarioName
                            THEN setCurrentScenario(P2, "baseline")
                            ELSE P2
                  IN  [TriggerCallbacks(P3, "onScenarioDelete") EXCEPT !.result = "true"]
             ELSE P2

deleteScenario(P, scenarioName, ok) ==
    IF scenarioName = "baseline"
    THEN [P EXCEPT !.result = "ProtectedScenario"]
    ELSE IF ~Truthy(Lookup(P.scenarios, scenarioName))
    THEN [P EXCEPT !.result = "NotFound"]
    ELSE LET P1 == [P EXCEPT !.scenarios = [n \in DOMAIN P.scenarios \ {scenarioName} |-> P.scenarios[n]]]
             P2 == StorageDeleteScenario(P1, scenarioName, ok)
         IN  IF P2.result = "true"
             THEN LET P3 == IF P2.currentScenario = scenarioName
                            THEN setCurrentScenario(P2, "baseline")
                            ELSE P2
                  IN  [TriggerCallbacks(P3, "onScenarioDelete") EXCEPT !.result = "true"]
             ELSE P2

\* deepMerge(target, source) for a source holding a partial income subtree
deepMerge(target, source) ==
    LET result == JSONClone(target)
        merge(obj1, obj2) == [k \in DOMAIN obj1 |-> IF k \in DOMAIN obj2 THEN obj2[k] ELSE obj1[k]]
    IN  [result EXCEPT !.income = merge(result.income, source.income),
                       !.expenses = merge(result.expenses, source.expenses)]

updateScenario(P, scenarioName, updatedData, ok) ==
    LET s == Lookup(P.scenarios, scenarioName)
    IN  IF ~Truthy(s)
        THEN [P EXCEPT !.result = "NotFound"]
        ELSE IF s = PROTO
        THEN [P EXCEPT !.result = "SyntaxError"]        \* JSON.parse(undefined)
        ELSE LET r == Alloc(P.heap)
                 H == (r :> deepMerge(P.heap[s], updatedData)) @@ P.heap
             IN  saveScenario([P EXCEPT !.heap = H], scenarioName, r, ok)

----------------------------------------------------------------------------
(* ConsciousSpendingApp *)

\* handleScenarioImport: importScenarios, then loadAllScenarios once it resolved
handleScenarioImport(P, M, ok, oks) ==
    LET P1 == StorageImportScenarios(P, M, ok)
    IN  IF P1.result = "resolved"
        THEN [loadAllScenarios(P1, oks) EXCEPT !.result = "resolved"]
        ELSE P1

\* updateScenarioFromForm: edits the current scenario object in place, then saves it;
\* the outcome recorded is what the inner saveScenario returned
updateScenarioFromForm(P, form, ok) ==
    LET c == Lookup(P.scenarios, P.currentScenario)
    IN  IF ~Truthy(c)
        THEN [P EXCEPT !.result = "undefined"]
        ELSE IF c = PROTO
        THEN [P EXCEPT !.result = "TypeError"]          \* currentScenario.income is undefined
        ELSE saveScenario([P EXCEPT !.heap[c].income.salary = form.salary,
                                    !.heap[c].expenses.rent = form.rent],
                          P.currentScenario, c, ok)

----------------------------------------------------------------------------------------------------------------------------------------
(* The state machine *)

Prog == [scenarios |-> scenarios, heap |-> heap, currentScenario |-> currentScenario,
         stored |-> stored, fired |-> NoFired, result |-> "none", failed |-> 0]

Commit(P, op, a1, a2) ==
    LET Q == Collect(P)
    IN  /\ failures + Q.failed <= MaxFailures
        /\ scenarios' = Q.scenarios
        /\ heap' = Q.heap
        /\ currentScenario' = Q.currentScenario
        /\ stored' = Q.stored
        /\ fired' = Q.fired
        /\ failures' = failures + Q.failed
        /\ lastOp' = [op |-> op, a1 |-> a1, a2 |-> a2, result |-> Q.result]
        /\ UNCHANGED <<lastCall, calc, firstResult, formVars>>

Constructed == lastOp.op # "none"

\* whether the next localStorage write goes through: it may throw while the run
\* has failures left
Oks == IF failures < MaxFailures THEN BOOLEAN ELSE {TRUE}

Outcomes == [1..3 -> BOOLEAN]

AllOk == [i \in 1..3 |-> TRUE]

Init ==
    /\ scenarios = EmptyMap
    /\ heap = EmptyMap
    /\ currentScenario = NULL
    /\ stored \in InitialStored
    /\ fired = NoFired
    /\ failures = 0
    /\ lastOp = [op |-> "none", a1 |-> "", a2 |-> "", result |-> "none"]
    /\ lastCall = NoCall
    /\ calc = NewCalculator
    /\ firstResult = NoResult
    /\ FormIdle

\* new ScenarioManager(storage), at first start and at every page load
Construct ==
    \E oks \in (IF DOMAIN stored = {} THEN Outcomes ELSE {AllOk}) :
        Commit(loadAllScenarios([Prog EXCEPT !.scenarios = EmptyMap, !.heap = EmptyMap,
                                             !.currentScenario = NULL], oks),
               "construct", "", "")

SetCurrentScenario ==
    /\ Constructed
    /\ \E name \in SetCurrentNames :
        Commit(setCurrentScenario(Prog, name), "setCurrent", name, "")

CreateNewScenario ==
    /\ Constructed
    /\ \E call \in CreateCalls, description \in Descriptions, ok \in Oks :
        Commit(createNewScenario(Prog, call[1], description, call[2], ok), "create", call[1], call[2])

DuplicateScenario ==
    /\ Constructed
    /\ \E call \in DuplicateCalls, ok \in Oks :
        Commit(duplicateScenario(Prog, call[1], call[2], ok), "duplicate", call[1], call[2])

DeleteScenario ==
    /\ Constructed
    /\ \E name \in DeleteNames, ok \in Oks :
        Commit(deleteScenario(Prog, name, ok), "delete", name, "")

UpdateScenario ==
    /\ Constructed
    /\ \E name \in UpdateNames, patch \in Patches, ok \in Oks :
        Commit(updateScenario(Prog, name, patch, ok), "update", name, "")

UpdateScenarioFromForm ==
    /\ Constructed
    /\ \E form \in FormValues, ok \in Oks :
        Commit(updateScenarioFromForm(Prog, form, ok), "edit", currentScenario, "")

HandleScenarioImport ==
    /\ Constructed
    /\ \E file \in ImportFiles, ok \in Oks :
        Commit(handleScenarioImport(Prog, FileContents(file), ok, AllOk), "import", file,
               IF DOMAIN FileContents(file) \cap DOMAIN stored # {} THEN "overwrite" ELSE "add")

Next ==
    \/ Construct
    \/ SetCurrentScenario
    \/ CreateNewScenario
    \/ DuplicateScenario
    \/ DeleteScenario
    \/ UpdateScenario
    \/ UpdateScenarioFromForm
    \/ HandleScenarioImport

Spec == Init /\ [][Next]_vars

----------------------------------------------------------------------------
(* TaxCalculator *)

\* computed amounts are counted in 1/Scale of a dollar, rates in 1/Scale
Scale == 10000

\* the upper end of a table's last bracket
Infinity == 2147483647

federalBrackets ==
    [single |->
        << [min |-> 0,      max |-> 11550,    rate |-> 1000],
           [min |-> 11550,  max |-> 46650,    rate |-> 1200],
           [min |-> 46650,  max |-> 100525,   rate |-> 2200],
           [min |-> 100525, max |-> 191950,   rate |-> 2400],
           [min |-> 191950, max |-> 243725,   rate |-> 3200],
           [min |-> 243725, max |-> 609350,   rate |-> 3500],
           [min |-> 609350, max |-> Infinity, rate |-> 3700] >>,
     marriedFilingJointly |->
        << [min |-> 0,      max |-> 23100,    rate |-> 1000],
           [min |-> 23100,  max |-> 93300,    rate |-> 1200],
           [min |-> 93300,  max |-> 201050,   rate |-> 2200],
           [min |-> 201050, max |-> 383900,   rate |-> 2400],
           [min |-> 383900, max |-> 487450,   rate |-> 3200],
           [min |-> 487450, max |-> 731200,   rate |-> 3500],
           [min |-> 731200, max |-> Infinity, rate |-> 3700] >>,
     marriedFilingSeparately |->
        << [min |-> 0,      max |-> 11550,    rate |-> 1000],
           [min |-> 11550,  max |-> 46650,    rate |-> 1200],
           [min |-> 46650,  max |-> 100525,   rate |-> 2200],
           [min |-> 100525, max |-> 191950,   rate |-> 2400],
           [min |-> 191950, max |-> 243725,   rate |-> 3200],
           [min |-> 243725, max |-> 365600,   rate |-> 3500],
           [min |-> 365600, max |-> Infinity, rate |-> 3700] >>,
     headOfHousehold |->
        << [min |-> 0,      max |-> 16550,    rate |-> 1000],
           [min |-> 16550,  max |-> 63100,    rate |-> 1200],
           [min |-> 63100,  max |-> 100500,   rate |-> 2200],
           [min |-> 100500, max |-> 191950,   rate |-> 2400],
           [min |-> 191950, max |-> 243700,   rate |-> 3200],
           [min |-> 243700, max |-> 609350,   rate |-> 3500],
           [min |-> 609350, max |-> Infinity, rate |-> 3700] >>]

standardDeductions ==
    [single |-> 15000, marriedFilingJointly |-> 30000,
     marriedFilingSeparately |-> 15000, headOfHousehold |-> 22500]

ficaRates ==
    [socialSecurity |-> 620, medicare |-> 145, additionalMedicare |-> 90,
     socialSecurityWageBase |-> 176100]

\* the wages above which the additional Medicare tax is due
AdditionalMedicareThreshold == 200000

\* the rate applied for a state the table does not hold
DefaultStateRate == 500

NoTax == [type |-> "none"]

Flat(rate) == [type |-> "flat", rate |-> rate]

stateTaxRates ==
    [AK |-> NoTax, FL |-> NoTax, NV |-> NoTax, NH |-> NoTax, SD |-> NoTax,
     TN |-> NoTax, TX |-> NoTax, WA |-> NoTax, WY |-> NoTax,
     CO |-> Flat(440), IL |-> Flat(495), IA |-> Flat(380),
     KY |-> Flat(450), MI |-> Flat(425), NC |-> Flat(450), PA |-> Flat(307),
     UT |-> Flat(485),
     CA |-> [type |-> "progressive", brackets |->
        << [min |-> 0,      max |-> 10099,    rate |-> 100],
           [min |-> 10099,  max |-> 23942,    rate |-> 200],
           [min |-> 23942,  max |-> 37788,    rate |-> 400],
           [min |-> 37788,  max |-> 52455,    rate |-> 600],
           [min |-> 52455,  max |-> 66295,    rate |-> 800],
           [min |-> 66295,  max |-> 338639,   rate |-> 930],
           [min |-> 338639, max |-> 406364,   rate |-> 1030],
           [min |-> 406364, max |-> 677278,   rate |-> 1130],
           [min |-> 677278, max |-> Infinity, rate |-> 1230] >>],
     NY |-> [type |-> "progressive", brackets |->
        << [min |-> 0,        max |-> 8500,     rate |-> 400],
           [min |-> 8500,     max |-> 11700,    rate |-> 450],
           [min |-> 11700,    max |-> 13900,    rate |-> 525],
           [min |-> 13900,    max |-> 80650,    rate |-> 585],
           [min |-> 80650,    max |-> 215400,   rate |-> 625],
           [min |-> 215400,   max |-> 1077550,  rate |-> 685],
           [min |-> 1077550,  max |-> 5000000,  rate |-> 965],
           [min |-> 5000000,  max |-> 25000000, rate |-> 1030],
           [min |-> 25000000, max |-> Infinity, rate |-> 1090] >>]]
    @@ ("IN" :> Flat(300))

MathMin(x, y) == IF x <= y THEN x ELSE y

MathMax(x, y) == IF x >= y THEN x ELSE y

\* Math.round(x * 100) / 100: to the nearest cent, a half going up
RoundToCent(x) == ((x + 50) \div 100) * 100

\* tax / income * 100, kept as the fraction it is: the tax in 1/Scale of a
\* dollar, the income in dollars
Percent(num, den) == [num |-> num, den |-> den]

\* the number 0 as a rate
ZeroRate == [num |-> 0, den |-> 1]

\* 0 / 0
NaN == [num |-> 0, den |-> 0]

\* a / b * 100 as JavaScript computes it
JSPercent(a, b) == IF b = 0 /\ a = 0 THEN NaN ELSE Percent(a, b)

\* the loop over a bracket table: the tax summed over brackets i..Len(brackets)
RECURSIVE BracketLoop(_, _, _)
BracketLoop(brackets, taxableIncome, i) ==
    IF i > Len(brackets)
    THEN 0
    ELSE (IF taxableIncome > brackets[i].min
          THEN (MathMin(taxableIncome, brackets[i].max) - brackets[i].min) * brackets[i].rate
          ELSE 0)
         + BracketLoop(brackets, taxableIncome, i + 1)

\* the filing status after the parameter's default has been applied
DefaultedStatus(filingStatus) == IF filingStatus = ABSENT THEN "single" ELSE filingStatus

\* the brackets lying wholly below an income, taxed in full
RECURSIVE FullBracketsBelow(_, _, _)
FullBracketsBelow(brackets, income, i) ==
    IF i > Len(brackets)
    THEN 0
    ELSE (IF brackets[i].max <= income
          THEN (brackets[i].max - brackets[i].min) * brackets[i].rate
          ELSE 0)
         + FullBracketsBelow(brackets, income, i + 1)

\* calculateFederalTax that leaves out the bracket the income ends in
calculateFederalTax_FullBracketsOnly(taxableIncome, filingStatus) ==
    LET status == DefaultedStatus(filingStatus)
    IN  IF status \in DOMAIN federalBrackets
        THEN [error |-> "none",
              value |-> RoundToCent(FullBracketsBelow(federalBrackets[status], taxableIncome, 1))]
        ELSE IF status \in InheritedNames
        THEN [error |-> "TypeError"]
        ELSE [error |-> "InvalidFilingStatus"]

\* calculateFederalTax whose loop starts at the second bracket
calculateFederalTax_SkipsFirstBracket(taxableIncome, filingStatus) ==
    LET status == DefaultedStatus(filingStatus)
    IN  IF status \in DOMAIN federalBrackets
        THEN [error |-> "none",
              value |-> RoundToCent(BracketLoop(federalBrackets[status], taxableIncome, 2))]
        ELSE IF status \in InheritedNames
        THEN [error |-> "TypeError"]
        ELSE [error |-> "InvalidFilingStatus"]

calculateFederalTax(taxableIncome, filingStatus) ==
    LET status == DefaultedStatus(filingStatus)
    IN  IF status \in DOMAIN federalBrackets
        THEN [error |-> "none",
              value |-> RoundToCent(BracketLoop(federalBrackets[status], taxableIncome, 1))]
        ELSE IF status \in InheritedNames
        THEN [error |-> "TypeError"]           \* a function is not iterable
        ELSE [error |-> "InvalidFilingStatus"]

calculateStateTax(taxableIncome, state) ==
    IF state \in DOMAIN stateTaxRates
    THEN LET stateInfo == stateTaxRates[state]
         IN  CASE stateInfo.type = "none" -> 0
               [] stateInfo.type = "flat" -> taxableIncome * stateInfo.rate
               [] stateInfo.type = "progressive" ->
                      RoundToCent(BracketLoop(stateInfo.brackets, taxableIncome, 1))
    ELSE IF state \in InheritedNames
    THEN 0                                      \* stateInfo.type is undefined
    ELSE taxableIncome * DefaultStateRate

calculateFICA(grossWages) ==
    LET socialSecurityWages == MathMin(grossWages, ficaRates.socialSecurityWageBase)
        socialSecurityTax == socialSecurityWages * ficaRates.socialSecurity
        medicareTax == grossWages * ficaRates.medicare
        additionalMedicareTax ==
            IF grossWages > AdditionalMedicareThreshold
            THEN (grossWages - AdditionalMedicareThreshold) * ficaRates.additionalMedicare
            ELSE 0
    IN  [socialSecurity |-> RoundToCent(socialSecurityTax),
         medicare |-> RoundToCent(medicareTax),
         additionalMedicare |-> RoundToCent(additionalMedicareTax),
         total |-> RoundToCent(socialSecurityTax + medicareTax + additionalMedicareTax)]

getStandardDeduction(filingStatus) ==
    IF filingStatus \in DOMAIN standardDeductions
    THEN standardDeductions[filingStatus]
    ELSE standardDeductions.single

calculateEffectiveRate(totalTax, grossIncome) ==
    IF grossIncome > 0 THEN Percent(totalTax, grossIncome) ELSE ZeroRate

\* the rate of the last bracket the income reaches into
RECURSIVE MarginalLoop(_, _, _, _)
MarginalLoop(brackets, taxableIncome, i, rate) ==
    IF i > Len(brackets)
    THEN rate
    ELSE MarginalLoop(brackets, taxableIncome, i + 1,
                      IF taxableIncome > brackets[i].min THEN brackets[i].rate ELSE rate)

calculateMarginalRate(taxableIncome, filingStatus, state) ==
    LET federalMarginalRate == MarginalLoop(federalBrackets[filingStatus], taxableIncome, 1, 0)
        stateMarginalRate ==
            IF state \notin DOMAIN stateTaxRates THEN 0
            ELSE CASE stateTaxRates[state].type = "flat" -> stateTaxRates[state].rate
                   [] stateTaxRates[state].type = "progressive" ->
                          MarginalLoop(stateTaxRates[state].brackets, taxableIncome, 1, 0)
                   [] OTHER -> 0
    IN  federalMarginalRate + stateMarginalRate

\* calculateAllTaxes that leaves the deductions out of the net income
calculateAllTaxes_NetOfTaxOnly(grossIncome, preTexDeductions, filingStatus, state) ==
    LET standardDeduction == getStandardDeduction(filingStatus)
        taxableIncome == MathMax(0, grossIncome - preTexDeductions - standardDeduction)
        federalTax == calculateFederalTax(taxableIncome, filingStatus)
        stateTax == calculateStateTax(taxableIncome, state)
        fica == calculateFICA(grossIncome - preTexDeductions)
        totalTax == federalTax.value + stateTax + fica.total
        netIncome == grossIncome * Scale - totalTax
    IN  IF federalTax.error # "none"
        THEN [error |-> federalTax.error]
        ELSE [error |-> "none",
              grossIncome |-> grossIncome,
              preTexDeductions |-> preTexDeductions,
              standardDeduction |-> standardDeduction,
              taxableIncome |-> taxableIncome,
              federalTax |-> federalTax.value,
              stateTax |-> stateTax,
              fica |-> fica,
              totalTax |-> totalTax,
              netIncome |-> netIncome,
              effectiveRate |-> calculateEffectiveRate(totalTax, grossIncome),
              marginalRate |-> calculateMarginalRate(taxableIncome, DefaultedStatus(filingStatus), state)]

\* grossIncome, preTexDeductions, standardDeduction and taxableIncome are in
\* dollars, the computed amounts in 1/Scale of a dollar
calculateAllTaxes(grossIncome, preTexDeductions, filingStatus, state) ==
    LET standardDeduction == getStandardDeduction(filingStatus)
        taxableIncome == MathMax(0, grossIncome - preTexDeductions - standardDeduction)
        federalTax == calculateFederalTax(taxableIncome, filingStatus)
        stateTax == calculateStateTax(taxableIncome, state)
        fica == calculateFICA(grossIncome - preTexDeductions)
        totalTax == federalTax.value + stateTax + fica.total
        netIncome == (grossIncome - preTexDeductions) * Scale - totalTax
    IN  IF federalTax.error # "none"
        THEN [error |-> federalTax.error]
        ELSE [error |-> "none",
              grossIncome |-> grossIncome,
              preTexDeductions |-> preTexDeductions,
              standardDeduction |-> standardDeduction,
              taxableIncome |-> taxableIncome,
              federalTax |-> federalTax.value,
              stateTax |-> stateTax,
              fica |-> fica,
              totalTax |-> totalTax,
              netIncome |-> netIncome,
              effectiveRate |-> calculateEffectiveRate(totalTax, grossIncome),
              marginalRate |-> calculateMarginalRate(taxableIncome, DefaultedStatus(filingStatus), state)]

----------------------------------------------------------------------------
(* The calls of the tax calculator: each behaviour is one call, of any of   *)
(* the functions, on any of the arguments                                  *)

\* gross incomes, in dollars
GrossIncomes == {0, 1, 50001, 120000, 210000}

\* totals of pre-tax deductions, in dollars
PreTaxTotals == {0, 1000, 23000, 60000}

\* filing statuses: the four of the tables, one of no table, none given, and
\* a name every object inherits
FilingStatuses == DOMAIN federalBrackets \cup {"bogus", ABSENT} \cup InheritedNames

\* states: no tax, flat, progressive, not in the table, inherited
States == {"TX", "PA", "CA", "NY", "ZZ"} \cup InheritedNames

\* wages for calculateFICA, in dollars
Wages == (0..40) \cup {-1000, 50001, 176099, 176100, 176101, 199999, 200000, 200001, 200003, 210000}

\* the ends of the brackets of a filing status
Boundaries(status) ==
    {federalBrackets[status][i].min : i \in 1..Len(federalBrackets[status])}

\* taxable incomes for calculateFederalTax: at, just below and just above every boundary
TaxableIncomes(status) ==
    {0, 1, 50000} \cup
    UNION {{B - 1, B, B + 1} : B \in Boundaries(status) \ {0}}

\* the machine is not a scenario store: the store's variables stay as constructed
StoreIdle ==
    /\ scenarios = EmptyMap
    /\ heap = EmptyMap
    /\ currentScenario = NULL
    /\ stored = EmptyMap
    /\ fired = NoFired
    /\ failures = 0
    /\ lastOp = [op |-> "none", a1 |-> "", a2 |-> "", result |-> "none"]

TaxInit ==
    /\ StoreIdle
    /\ lastCall = NoCall
    /\ calc = NewCalculator
    /\ firstResult = NoResult
    /\ FormIdle

CalculateAllTaxes ==
    /\ lastCall = NoCall
    /\ \E grossIncome \in GrossIncomes, preTexDeductions \in PreTaxTotals,
       filingStatus \in FilingStatuses, state \in States :
        /\ lastCall' = [fn |-> "calculateAllTaxes",
                        args |-> [grossIncome |-> grossIncome, preTexDeductions |-> preTexDeductions,
                                  filingStatus |-> filingStatus, state |-> state],
                        ret |-> calculateAllTaxes(grossIncome, preTexDeductions, filingStatus, state)]
        /\ UNCHANGED <<storeVars, calc, firstResult, formVars>>

CalculateFICA ==
    /\ lastCall = NoCall
    /\ \E grossWages \in Wages :
        /\ lastCall' = [fn |-> "calculateFICA",
                        args |-> [grossWages |-> grossWages],
                        ret |-> calculateFICA(grossWages)]
        /\ UNCHANGED <<storeVars, calc, firstResult, formVars>>

\* two calls of calculateFederalTax, for incomes lower <= upper of one filing status
CalculateFederalTax ==
    /\ lastCall = NoCall
    /\ \E filingStatus \in DOMAIN federalBrackets :
      \E lower \in TaxableIncomes(filingStatus), upper \in TaxableIncomes(filingStatus) :
        /\ lower <= upper
        /\ lastCall' = [fn |-> "calculateFederalTax",
                        args |-> [lower |-> lower, upper |-> upper, filingStatus |-> filingStatus],
                        ret |-> [lower |-> calculateFederalTax(lower, filingStatus),
                                 upper |-> calculateFederalTax(upper, filingStatus)]]
        /\ UNCHANGED <<storeVars, calc, firstResult, formVars>>

TaxNext ==
    \/ CalculateAllTaxes
    \/ CalculateFICA
    \/ CalculateFederalTax

TaxSpec == TaxInit /\ [][TaxNext]_vars

----------------------------------------------------------------------------
(* HouseholdCalculator *)
(* A result is [kind |-> "result", value |-> ...], [kind |-> "null"] or,    *)
(* when the call throws, [kind |-> "error", error |-> ...].  The figures a  *)
(* result derives from others by a division (monthly and biweekly amounts,  *)
(* the percentages of the breakdown, the summary) are left out.             *)

\* obj.key is not undefined
Has(obj, key) == key \in DOMAIN obj

\* obj.key || 0
Get(obj, key) == IF Has(obj, key) THEN obj[key] ELSE 0

Thrown(error) == [kind |-> "error", error |-> error]

Returned(value) == [kind |-> "result", value |-> value]

ReturnedNull == [kind |-> "null"]

\* Object.values(obj).reduce((sum, amount) => sum + (amount || 0), 0), over the keys given
RECURSIVE SumValues(_, _)
SumValues(obj, keys) ==
    IF keys = {}
    THEN 0
    ELSE LET key == CHOOSE k \in keys : TRUE
         IN  obj[key] + SumValues(obj, keys \ {key})

getEmptyPersonCalculation ==
    [name |-> "", gross |-> 0, preTexDeductions |-> 0, federalTax |-> 0, stateTax |-> 0,
     fica |-> [total |-> 0], totalTax |-> 0, netAnnual |-> 0,
     effectiveRate |-> ZeroRate, marginalRate |-> 0]

\* what calculatePersonIncome returns for the tax result it got, or the error
\* that calculateAllTaxes threw
PersonCalculation(person, grossIncome, preTexDeductions, taxResult) ==
    IF taxResult.error # "none"
    THEN Thrown(taxResult.error)
    ELSE Returned([name |-> IF Has(person, "name") THEN person.name ELSE "Unknown",
                   gross |-> grossIncome,
                   preTexDeductions |-> preTexDeductions,
                   federalTax |-> taxResult.federalTax,
                   stateTax |-> taxResult.stateTax,
                   fica |-> taxResult.fica,
                   totalTax |-> taxResult.totalTax,
                   netAnnual |-> taxResult.netIncome,
                   effectiveRate |-> taxResult.effectiveRate,
                   marginalRate |-> taxResult.marginalRate])

\* calculatePersonIncome(scenario.income[key], scenario); the set of one
\* element holds the tax result, computed once as the const of the code is
calculatePersonIncome(scenario, key) ==
    IF ~Has(scenario.income, key)
    THEN Returned(getEmptyPersonCalculation)
    ELSE LET person == scenario.income[key]
             grossIncome == Get(person, "salary") + Get(person, "bonus") + Get(person, "otherIncome")
             preTexDeductions ==
                 IF Has(person, "preTexDeductions")
                 THEN SumValues(person.preTexDeductions, DOMAIN person.preTexDeductions)
                 ELSE 0
         IN  CHOOSE personCalc \in
                 { PersonCalculation(person, grossIncome, preTexDeductions, taxResult) :
                     taxResult \in { calculateAllTaxes(grossIncome, preTexDeductions,
                                                       scenario.household.filingStatus,
                                                       scenario.household.location.state) } } :
                 TRUE

\* processItem that gives a person the whole of a shared item
processItem_SharedInFull(item, person) ==
    IF item.amount = 0
    THEN 0
    ELSE IF person = NULL THEN item.amount * Scale
    ELSE IF item.assignedTo = person THEN item.amount * Scale
    ELSE IF item.assignedTo = "shared" THEN item.amount * Scale
    ELSE 0

\* processItem that leaves the shared items out of a person's total
processItem_SharedDropped(item, person) ==
    IF item.amount = 0
    THEN 0
    ELSE IF person = NULL THEN item.amount * Scale
    ELSE IF item.assignedTo = person THEN item.amount * Scale
    ELSE 0

\* what processItem adds to the total, in 1/Scale of a dollar
processItem(item, person) ==
    IF item.amount = 0
    THEN 0
    ELSE IF person = NULL THEN item.amount * Scale
    ELSE IF item.assignedTo = person THEN item.amount * Scale
    ELSE IF item.assignedTo = "shared" THEN (item.amount * Scale) \div 2
    ELSE 0

\* traverseCategory over the keys given
RECURSIVE traverseCategory(_, _, _)
traverseCategory(cat, person, keys) ==
    IF keys = {}
    THEN 0
    ELSE LET key == CHOOSE k \in keys : TRUE
         IN  (IF Has(cat[key], "amount")
              THEN processItem(cat[key], person)
              ELSE traverseCategory(cat[key], person, DOMAIN cat[key]))
             + traverseCategory(cat, person, keys \ {key})

calculateCategoryTotal(category, person) ==
    traverseCategory(category, person, DOMAIN category)

\* calculateCategoryTotal(categories[key], person); the loop over undefined is empty
CategoryTotal(categories, key, person) ==
    IF Has(categories, key) THEN calculateCategoryTotal(categories[key], person) ELSE 0

CategoryNames == {"fixedCosts", "investments", "savings", "guiltFreeSpending"}

calculateHouseholdExpenses(scenario) ==
    IF ~Has(scenario, "expenses") \/ ~Has(scenario.expenses, "ramitCategories")
    THEN Thrown("TypeError")
    ELSE LET categories == scenario.expenses.ramitCategories
             breakdown == [c \in CategoryNames |-> CategoryTotal(categories, c, NULL)]
             total == SumValues(breakdown, CategoryNames)
         IN  Returned([breakdown |-> breakdown, total |-> total, monthly |-> total,
                       annual |-> total * 12])

\* what calculateScenario returns for the three parts it computed, or the
\* error that the first of them threw
ScenarioResult(person1Calc, person2Calc, householdExpenses) ==
    LET p1 == person1Calc.value
        p2 == person2Calc.value
    IN  IF person1Calc.kind = "error" THEN person1Calc
        ELSE IF person2Calc.kind = "error" THEN person2Calc
        ELSE IF householdExpenses.kind = "error" THEN householdExpenses
        ELSE Returned([person1 |-> p1,
                       person2 |-> p2,
                       household |->
                           [grossIncome |-> p1.gross + p2.gross,
                            netIncome |-> p1.netAnnual + p2.netAnnual,
                            totalTaxes |-> p1.totalTax + p2.totalTax,
                            effectiveRate |-> JSPercent(p1.totalTax + p2.totalTax,
                                                        p1.gross + p2.gross)],
                       expenses |-> householdExpenses.value])

\* calculateScenario handing back the calculations the calculator holds, when
\* it holds a result
calculateScenario_Cached(scenario) ==
    IF calc.calculations.kind = "result"
    THEN calc.calculations
    ELSE IF ~Has(scenario, "income")
    THEN Thrown("TypeError")
    ELSE CHOOSE calculations \in
             { ScenarioResult(person1Calc, person2Calc, householdExpenses) :
                 person1Calc \in { calculatePersonIncome(scenario, "person1") },
                 person2Calc \in { calculatePersonIncome(scenario, "person2") },
                 householdExpenses \in { calculateHouseholdExpenses(scenario) } } :
             TRUE

\* calculateScenario(scenario), for a scenario that is an object; each part
\* is computed once, as the consts of the code are
calculateScenario(scenario) ==
    IF ~Has(scenario, "income")
    THEN Thrown("TypeError")
    ELSE CHOOSE calculations \in
             { ScenarioResult(person1Calc, person2Calc, householdExpenses) :
                 person1Calc \in { calculatePersonIncome(scenario, "person1") },
                 person2Calc \in { calculatePersonIncome(scenario, "person2") },
                 householdExpenses \in { calculateHouseholdExpenses(scenario) } } :
             TRUE

\* setScenario(hp[ref]): the calculator afterwards and what the call returns or throws
setScenario(c, hp, ref) ==
    LET c1 == [c EXCEPT !.currentScenario = ref]
    IN  CHOOSE after \in
            { IF calculations.kind = "error"
              THEN [calc |-> c1, ret |-> calculations]
              ELSE [calc |-> [c1 EXCEPT !.calculations = calculations], ret |-> calculations] :
                calculations \in { IF ref = NullRef THEN ReturnedNull
                                   ELSE calculateScenario(hp[ref]) } } :
            TRUE

\* Object.assign(target, source)
ObjectAssign(target, source) ==
    [k \in DOMAIN target \cup DOMAIN source |-> IF Has(source, k) THEN source[k] ELSE target[k]]

\* deepMerge(target, source) for a source whose values are objects down to
\* the given depth, where they are numbers
RECURSIVE deepMergeLevels(_, _, _)
deepMergeLevels(target, source, depth) ==
    [k \in DOMAIN target \cup DOMAIN source |->
        IF ~Has(source, k) THEN target[k]
        ELSE IF depth = 1 THEN source[k]
        ELSE deepMergeLevels(IF Has(target, k) THEN target[k] ELSE EmptyMap, source[k], depth - 1)]

\* the depth of the amounts in changes.expenses: ramitCategories, category, item, amount
ChangeDepth == 4

\* the scenario with the changes applied
Modified(scenario, changes) ==
    LET m1 == IF Has(changes, "income")
              THEN [scenario EXCEPT !.income =
                       [person \in DOMAIN scenario.income |->
                           IF Has(changes.income, person)
                           THEN ObjectAssign(scenario.income[person], changes.income[person])
                           ELSE scenario.income[person]]]
              ELSE scenario
    IN  IF Has(changes, "expenses")
        THEN [m1 EXCEPT !.expenses = deepMergeLevels(m1.expenses, changes.expenses, ChangeDepth)]
        ELSE m1

\* applyChanges working on the scenario it is given, without the copy
applyChanges_InPlace(hp, ref, changes) ==
    IF (Has(changes, "income") /\ ~Has(hp[ref], "income"))
       \/ (Has(changes, "expenses") /\ ~Has(hp[ref], "expenses"))
    THEN [heap |-> hp, ret |-> Thrown("TypeError")]
    ELSE [heap |-> [hp EXCEPT ![ref] = Modified(hp[ref], changes)],
          ret |-> Returned(Modified(hp[ref], changes))]

\* applyChanges(hp[ref], changes): the objects afterwards and the modified
\* copy; JSON.parse(JSON.stringify(scenario)) is a new object with the same fields
applyChanges(hp, ref, changes) ==
    IF (Has(changes, "income") /\ ~Has(hp[ref], "income"))
       \/ (Has(changes, "expenses") /\ ~Has(hp[ref], "expenses"))
    THEN [heap |-> hp, ret |-> Thrown("TypeError")]
    ELSE [heap |-> hp, ret |-> Returned(Modified(hp[ref], changes))]

calculateWhatIf(hp, ref, changes) ==
    LET applied == applyChanges(hp, ref, changes)
    IN  IF applied.ret.kind = "error"
        THEN applied
        ELSE [heap |-> applied.heap, ret |-> calculateScenario(applied.ret.value)]

calculatePersonView(c, hp, person) ==
    IF c.calculations.kind # "result" \/ ~Has(c.calculations.value, person)
    THEN ReturnedNull
    ELSE LET personCalc == c.calculations.value[person]
             scenario == hp[c.currentScenario]
         IN  IF ~Has(scenario, "expenses") \/ ~Has(scenario.expenses, "ramitCategories")
             THEN Thrown("TypeError")
             ELSE LET personExpenses ==
                          [cat \in CategoryNames |->
                              CategoryTotal(scenario.expenses.ramitCategories, cat, person)]
                  IN  Returned([income |-> personCalc,
                                expenses |-> personExpenses,
                                totalExpenses |-> SumValues(personExpenses, CategoryNames)])

----------------------------------------------------------------------------
(* The calls of the household calculator.  `heap` holds the scenario       *)
(* objects the application hands to the calculator, by reference.          *)

Item(amount, assignedTo) == [amount |-> amount, assignedTo |-> assignedTo]

Person1 ==
    [name |-> "Partner 1", salary |-> 120000, bonus |-> 15000, otherIncome |-> 2000,
     payFrequency |-> "biweekly",
     preTexDeductions |-> [retirement401k |-> 18000, healthInsurance |-> 3600, hsa |-> 4300]]

Person2 ==
    [name |-> "Partner 2", salary |-> 85000, bonus |-> 5000, otherIncome |-> 0,
     payFrequency |-> "monthly",
     preTexDeductions |-> [retirement401k |-> 12000, healthInsurance |-> 0, hsa |-> 0]]

\* a person who earns nothing
PersonWithoutIncome ==
    [name |-> "Partner 1", salary |-> 0, bonus |-> 0, otherIncome |-> 0,
     payFrequency |-> "biweekly", preTexDeductions |-> [retirement401k |-> 0]]

Expenses ==
    [ramitCategories |->
        [fixedCosts |-> [rent |-> Item(3500, "shared"),
                         insurance |-> Item(150, "person1"),
                         carPayment |-> Item(450, "person2")],
         investments |-> [retirement |-> Item(1000, "shared")],
         savings |-> [emergency |-> Item(800, "shared")],
         guiltFreeSpending |-> [dining |-> Item(800, "shared"),
                                hobbies |-> Item(200, "person1")]]]

Household(filingStatus, state) ==
    [location |-> [state |-> state, locality |-> "San Francisco"],
     filingStatus |-> filingStatus,
     members |-> <<"person1", "person2">>]

Scenario(filingStatus, state, income) ==
    [household |-> Household(filingStatus, state), income |-> income, expenses |-> Expenses]

\* the scenario without one of its subtrees
Without(scenario, key) == [k \in DOMAIN scenario \ {key} |-> scenario[k]]

BothPersons == [person1 |-> Person1, person2 |-> Person2]

\* the scenario objects: whole, with one person, with no person, without the
\* income subtree, without the expenses subtree, with a filing status of no
\* table (with and without persons), with an inherited name as filing status,
\* and with persons who earn nothing
CalcObjects ==
    << Scenario("marriedFilingJointly", "CA", BothPersons),
       Scenario("single", "TX", [person1 |-> Person1]),
       Scenario("marriedFilingJointly", "CA", EmptyMap),
       Without(Scenario("marriedFilingJointly", "CA", BothPersons), "income"),
       Without(Scenario("marriedFilingJointly", "CA", BothPersons), "expenses"),
       Scenario("bogus", "CA", BothPersons),
       Scenario("bogus", "CA", EmptyMap),
       Scenario("toString", "CA", BothPersons),
       Scenario("single", "NY", [person1 |-> PersonWithoutIncome, person2 |-> PersonWithoutIncome]) >>

\* the changes of a what-if: a raise, and a higher rent
Changes ==
    { [income |-> [person1 |-> [salary |-> 130000]]],
      [expenses |-> [ramitCategories |-> [fixedCosts |-> [rent |-> [amount |-> 4000]]]]] }

\* the views of calculatePersonView
Views == {"person1", "person2", "combined"}

\* the amounts of the items of an expense tree
Amounts == {0, 1, 3500}

\* expense trees, with leaves at depth one, two and three
Trees ==
    { [rent |-> Item(a, w)] : a \in Amounts, w \in {"shared", "person1"} }
    \cup
    { [housing |-> [rent |-> Item(a, "shared"), utilities |-> Item(201, w)],
       dining |-> Item(a, "shared")] : a \in Amounts, w \in {"shared", "person2"} }
    \cup
    { [fixedCosts |-> [housing |-> [rent |-> Item(a, "shared")], phone |-> Item(7, w)]] :
         a \in Amounts, w \in {"shared", "person2"} }
    \cup
    { Expenses.ramitCategories.fixedCosts, Expenses.ramitCategories,
      [housing |-> [rent |-> Item(1, "shared"), insurance |-> Item(150, "person1")],
       transportation |-> [carPayment |-> Item(451, "person2")]] }
    \cup
    { EmptyMap }

\* the variables of the store, which the calculator does not touch
calcIdle == <<scenarios, currentScenario, stored, fired, lastOp, failures, formVars>>

CalcInit ==
    /\ scenarios = EmptyMap
    /\ heap = CalcObjects
    /\ currentScenario = NULL
    /\ stored = EmptyMap
    /\ fired = NoFired
    /\ failures = 0
    /\ lastOp = [op |-> "none", a1 |-> "", a2 |-> "", result |-> "none"]
    /\ lastCall = NoCall
    /\ calc = NewCalculator
    /\ firstResult = NoResult
    /\ FormIdle

\* the first call of calculateScenario on an object, once it is made: the
\* fields the object had and what the call returned or threw
Recorded(hp, ref, ret) ==
    IF firstResult = NoResult /\ ref # NullRef
    THEN [kind |-> "first", snapshot |-> hp[ref], ret |-> ret]
    ELSE firstResult

SetScenario ==
    \E ref \in DOMAIN heap \cup {NullRef} :
        \E r \in { setScenario(calc, heap, ref) } :
            /\ calc' = r.calc
            /\ lastCall' = [fn |-> "setScenario", args |-> [scenario |-> ref], ret |-> r.ret]
            /\ firstResult' = Recorded(heap, ref, r.ret)
            /\ UNCHANGED <<heap, calcIdle>>

CalculateScenario ==
    \E ref \in DOMAIN heap \cup {NullRef} :
        \E ret \in { IF ref = NullRef THEN ReturnedNull ELSE calculateScenario(heap[ref]) } :
            /\ lastCall' = [fn |-> "calculateScenario", args |-> [scenario |-> ref], ret |-> ret]
            /\ firstResult' = Recorded(heap, ref, ret)
            /\ UNCHANGED <<calc, heap, calcIdle>>

CalculateWhatIf ==
    \E ref \in DOMAIN heap, changes \in Changes :
        \E r \in { calculateWhatIf(heap, ref, changes) } :
            /\ heap' = r.heap
            /\ lastCall' = [fn |-> "calculateWhatIf",
                            args |-> [scenario |-> ref, changes |-> changes], ret |-> r.ret]
            /\ UNCHANGED <<calc, firstResult, calcIdle>>

CalculatePersonView ==
    \E person \in Views :
        /\ lastCall' = [fn |-> "calculatePersonView", args |-> [person |-> person],
                        ret |-> calculatePersonView(calc, heap, person)]
        /\ UNCHANGED <<calc, heap, firstResult, calcIdle>>

\* the other of the two persons
OtherPerson(person) == IF person = "person1" THEN "person2" ELSE "person1"

\* three calls of calculateCategoryTotal on one tree: without a person, for a
\* person and for the other person; the function reads nothing but the tree,
\* so it is called in the first step of a run only
CalculateCategoryTotal ==
    /\ lastCall = NoCall
    /\ \E category \in Trees, person \in {"person1", "person2"} :
        /\ lastCall' = [fn |-> "calculateCategoryTotal",
                        args |-> [category |-> category, person |-> person],
                        ret |-> [total |-> calculateCategoryTotal(category, NULL),
                                 personTotal |-> calculateCategoryTotal(category, person),
                                 otherTotal |-> calculateCategoryTotal(category, OtherPerson(person))]]
        /\ UNCHANGED <<calc, heap, firstResult, calcIdle>>

CalcNext ==
    \/ SetScenario
    \/ CalculateScenario
    \/ CalculateWhatIf
    \/ CalculatePersonView
    \/ CalculateCategoryTotal

CalcSpec == CalcInit /\ [][CalcNext]_vars

----------------------------------------------------------------------------
(* The income and expense forms of ConsciousSpendingApp.  The forms are     *)
(* abstracted to one input per path of the code: a person's salary (a       *)
(* number) and pay frequency (a select), rent (an item whose key and input id agree),  *)
(* insurance (an item the scenarios hold under "insurance" and the form     *)
(* writes under "rentersInsurance") and additionalRetirement (an item       *)
(* loaded by name, outside loadCategory), each expense with its assignment  *)
(* select.  An input's value is text; the document holds every input the    *)
(* listeners of setupIncomeFormListeners and setupExpenseFormListeners      *)
(* name.  Time advances in steps of TickMs; a timeout whose time is up      *)
(* runs before time advances further.                                       *)

\* the step of the clock, in ms
TickMs == 100

\* the numbers the forms and the scenarios hold, and String(number)
NumberText ==
    (0 :> "0") @@ (150 :> "150") @@ (500 :> "500") @@ (1000 :> "1000") @@ (1500 :> "1500")
    @@ (3500 :> "3500") @@ (4000 :> "4000") @@ (60000 :> "60000") @@ (120000 :> "120000")
    @@ (130000 :> "130000")

\* parseFloat(text) is not NaN
IsNumeric(text) == \E n \in DOMAIN NumberText : NumberText[n] = text

\* parseFloat(text), for a text that is a number's
parseFloat(text) == CHOOSE n \in DOMAIN NumberText : NumberText[n] = text

\* getInputValue(inputId, defaultValue): parseFloat(input.value) || defaultValue
getInputValue(values, inputId, defaultValue) ==
    IF IsNumeric(values[inputId]) /\ parseFloat(values[inputId]) # 0
    THEN parseFloat(values[inputId])
    ELSE defaultValue

\* setInputValue(inputId, obj[key]) for a text: nothing is set when the
\* value is undefined
setInputValue(values, inputId, obj, key) ==
    IF ~Has(obj, key) THEN values
    ELSE [values EXCEPT ![inputId] = obj[key]]

\* setInputValue(inputId, obj[key]) for a number, which the input holds as text
setInputNumber(values, inputId, obj, key) ==
    IF ~Has(obj, key) THEN values
    ELSE [values EXCEPT ![inputId] = NumberText[obj[key]]]

\* the body of loadCategory's inner loop, for the item of a subcategory
\* that is loaded into the input mappedKey, its select set to
\* item.assignedTo || 'shared'; no item, nothing is set
loadItem(values, subcategory, itemKey, mappedKey) ==
    IF ~Has(subcategory, itemKey) \/ ~Has(subcategory[itemKey], "amount")
    THEN values
    ELSE setInputValue(setInputNumber(values, mappedKey, subcategory[itemKey], "amount"),
                       mappedKey \o "Assigned",
                       [assignedTo |-> IF Has(subcategory[itemKey], "assignedTo")
                                       THEN subcategory[itemKey].assignedTo ELSE "shared"],
                       "assignedTo")

\* categories.investments.retirement?.amount || 0 and ?.assignedTo || 'shared'
loadNamedItem(values, category, itemKey, inputId) ==
    LET item == IF Has(category, itemKey) THEN category[itemKey] ELSE EmptyMap
        amount == IF Has(item, "amount") THEN item.amount ELSE 0
    IN  setInputValue(setInputNumber(values, inputId, [amount |-> amount], "amount"),
                      inputId \o "Assigned",
                      [assignedTo |-> IF Has(item, "assignedTo") THEN item.assignedTo ELSE "shared"],
                      "assignedTo")

\* loadExpenseData(expenses): the items of fixedCosts in the order of their
\* keys, through the mapping of item keys to input ids, then the investments
loadExpenseData(values, expenses) ==
    IF ~Has(expenses, "ramitCategories") THEN values
    ELSE LET categories == expenses.ramitCategories
             housing == IF Has(categories, "fixedCosts") /\ Has(categories.fixedCosts, "housing")
                        THEN categories.fixedCosts.housing ELSE EmptyMap
             v1 == loadItem(values, housing, "rent", "rent")
             v2 == loadItem(v1, housing, "insurance", "insurance")
             v3 == loadItem(v2, housing, "rentersInsurance", "insurance")
         IN  IF Has(categories, "investments")
             THEN loadNamedItem(v3, categories.investments, "retirement", "additionalRetirement")
             ELSE v3

\* loadScenarioData(scenario), for a scenario that has both persons
loadScenarioData(values, scenario) ==
    LET person1 == scenario.income.person1
        person2 == scenario.income.person2
        v1 == setInputNumber(values, "person1Salary", person1, "salary")
        v2 == setInputValue(v1, "person1PayFreq", person1, "payFrequency")
        v3 == setInputNumber(v2, "person2Salary", person2, "salary")
        v4 == setInputValue(v3, "person2PayFreq", person2, "payFrequency")
    IN  loadExpenseData(v4, scenario.expenses)

\* updateExpenseItem: category[itemKey] after amount and assignedTo are set
\* from the inputs
updateExpenseItem(values, category, itemKey, inputId, assignedId) ==
    [k \in DOMAIN category \cup {itemKey} |->
        IF k = itemKey
        THEN Item(getInputValue(values, inputId, 0), getInputValue(values, assignedId, "shared"))
        ELSE category[k]]

\* scenario.expenses after updateExpenseDataFromForm(scenario), for a scenario
\* that has the categories
updateExpenseDataFromForm(values, scenario) ==
    LET categories == scenario.expenses.ramitCategories
        h1 == updateExpenseItem(values, categories.fixedCosts.housing, "rent", "rent", "rentAssigned")
        h2 == updateExpenseItem(values, h1, "rentersInsurance", "insurance", "insuranceAssigned")
        i1 == updateExpenseItem(values, categories.investments, "retirement",
                                "additionalRetirement", "additionalRetirementAssigned")
    IN  [scenario.expenses EXCEPT !.ramitCategories.fixedCosts.housing = h2,
                                  !.ramitCategories.investments = i1]

\* the current scenario's object after updateScenarioFromForm has written the
\* inputs into it, before it is saved
WrittenFromForm(values, scenario) ==
    [scenario EXCEPT
        !.income.person1.salary = getInputValue(values, "person1Salary", 0),
        !.income.person1.payFrequency = getInputValue(values, "person1PayFreq", "biweekly"),
        !.income.person2.salary = getInputValue(values, "person2Salary", 0),
        !.income.person2.payFrequency = getInputValue(values, "person2PayFreq", "monthly"),
        !.expenses = updateExpenseDataFromForm(values, scenario)]

\* the scenarios of the application: the built-in baseline, and a plan of the
\* user's that holds no insurance item
FormObjects ==
    << [metadata |-> createBaselineScenario.metadata,
        household |-> Household("marriedFilingJointly", "CA"),
        income |-> [person1 |-> [name |-> "Partner 1", salary |-> 120000, payFrequency |-> "biweekly"],
                    person2 |-> [name |-> "Partner 2", salary |-> 60000, payFrequency |-> "monthly"]],
        expenses |-> [ramitCategories |->
                        [fixedCosts |-> [housing |-> [rent |-> Item(3500, "shared"),
                                                      insurance |-> Item(150, "person1")]],
                         investments |-> [retirement |-> Item(1000, "shared")]]],
        lastModified |-> ABSENT],
       [metadata |-> ImportedScenario.metadata,
        household |-> Household("single", "NY"),
        income |-> [person1 |-> [name |-> "Partner 1", salary |-> 60000, payFrequency |-> "monthly"],
                    person2 |-> [name |-> "Partner 2", salary |-> 0, payFrequency |-> "biweekly"]],
        expenses |-> [ramitCategories |->
                        [fixedCosts |-> [housing |-> [rent |-> Item(1500, "person1")]],
                         investments |-> [retirement |-> Item(500, "shared")]]],
        lastModified |-> TS] >>

\* the edits of the user: an input and the text typed or selected
IncomeEdits == { [id |-> "person1Salary", value |-> "130000"],
                 [id |-> "person1PayFreq", value |-> "monthly"] }

ExpenseEdits == { [id |-> "rent", value |-> "4000"],
                  [id |-> "rentAssigned", value |-> "person1"] }

\* the application once init() is done: the manager constructed over a store
\* that holds the two scenarios, the baseline loaded into the forms by
\* initializeScenarios and calculated by updateCalculations
FormInit ==
    /\ scenarios = [baseline |-> 1, plan |-> 2]
    /\ heap = FormObjects
    /\ currentScenario = "baseline"
    /\ stored = [baseline |-> [FormObjects[1] EXCEPT !.lastModified = TS],
                 plan |-> [FormObjects[2] EXCEPT !.lastModified = TS]]
    /\ fired = NoFired
    /\ failures = 0
    /\ lastOp = [op |-> "construct", a1 |-> "", a2 |-> "", result |-> "true"]
    /\ inputs = loadScenarioData(
                    [id \in {"person1Salary", "person1PayFreq", "person2Salary", "person2PayFreq",
                             "rent", "rentAssigned", "insurance", "insuranceAssigned",
                             "additionalRetirement", "additionalRetirementAssigned"} |-> ""],
                    FormObjects[1])
    /\ incomeChangeTimeout = NoTimeout
    /\ expenseChangeTimeout = NoTimeout
    /\ burst = AtRest
    /\ \E r \in { setScenario(NewCalculator, FormObjects, 1) } :
        /\ calc = r.calc
        /\ lastCall = [fn |-> "setScenario", args |-> [scenario |-> 1], ret |-> r.ret]
        /\ firstResult = [kind |-> "first", snapshot |-> FormObjects[1], ret |-> r.ret]

\* what an edit makes of the run of edits: the edit belongs to the run in
\* progress when it follows the last edit by less than the window
Edited ==
    [sinceEdit |-> 0,
     updated |-> IF burst.sinceEdit < DebounceWindow THEN burst.updated ELSE FALSE,
     editedUnder |-> currentScenario]

\* the user changes an income input: handleIncomeChange
HandleIncomeChange ==
    \E edit \in IncomeEdits :
        /\ inputs' = [inputs EXCEPT ![edit.id] = edit.value]
        /\ incomeChangeTimeout' = DebounceWindow
        /\ burst' = Edited
        /\ UNCHANGED <<storeVars, lastCall, calc, firstResult, expenseChangeTimeout>>

\* the user changes an expense input: handleExpenseChange
HandleExpenseChange ==
    \E edit \in ExpenseEdits :
        /\ inputs' = [inputs EXCEPT ![edit.id] = edit.value]
        /\ expenseChangeTimeout' = DebounceWindow
        /\ burst' = Edited
        /\ UNCHANGED <<storeVars, lastCall, calc, firstResult, incomeChangeTimeout>>

\* updateCalculations: setScenario on the current scenario, whose error is caught
updateCalculations(hp) ==
    \E r \in { setScenario(calc, hp, scenarios[currentScenario']) } :
        /\ calc' = r.calc
        /\ lastCall' = [fn |-> "setScenario", args |-> [scenario |-> scenarios[currentScenario']],
                        ret |-> r.ret]
        /\ firstResult' = Recorded(hp, scenarios[currentScenario'], r.ret)

\* the callback of either timeout: updateScenarioFromForm, which writes the
\* inputs into the current scenario and saves it, then updateCalculations
TimeoutCallback ==
    LET ref == scenarios[currentScenario]
        P == saveScenario([Prog EXCEPT !.heap[ref] = WrittenFromForm(inputs, heap[ref])],
                          currentScenario, ref, TRUE)
    IN  /\ heap' = P.heap
        /\ stored' = P.stored
        /\ fired' = P.fired
        /\ lastOp' = [op |-> "edit", a1 |-> currentScenario, a2 |-> "", result |-> P.result]
        /\ burst' = [burst EXCEPT !.updated = TRUE]
        /\ UNCHANGED <<scenarios, currentScenario, failures, inputs>>
        /\ updateCalculations(P.heap)

IncomeChangeTimeout ==
    /\ incomeChangeTimeout = 0
    /\ incomeChangeTimeout' = NoTimeout
    /\ TimeoutCallback
    /\ UNCHANGED expenseChangeTimeout

ExpenseChangeTimeout ==
    /\ expenseChangeTimeout = 0
    /\ expenseChangeTimeout' = NoTimeout
    /\ TimeoutCallback
    /\ UNCHANGED incomeChangeTimeout

\* setCurrentScenario(name) for a name of the collection, and the
\* onScenarioChange callback it triggers: loadScenarioData(scenarioData)
SwitchTo(name) ==
    LET P == setCurrentScenario(Prog, name)
    IN  /\ currentScenario' = P.currentScenario
        /\ fired' = P.fired
        /\ lastOp' = [op |-> "setCurrent", a1 |-> name, a2 |-> "", result |-> P.result]
        /\ inputs' = loadScenarioData(inputs, heap[scenarios[name]])
        /\ UNCHANGED <<scenarios, heap, stored, failures,
                       incomeChangeTimeout, expenseChangeTimeout, burst>>

\* the user selects another scenario: handleScenarioChange, which loads the
\* scenario once more and updates the calculations
HandleScenarioChange ==
    \E name \in DOMAIN scenarios \ {currentScenario} :
        /\ SwitchTo(name)
        /\ updateCalculations(heap)

\* the user presses a scenario's edit button: editScenario
EditScenario ==
    \E name \in DOMAIN scenarios :
        /\ SwitchTo(name)
        /\ UNCHANGED <<lastCall, calc, firstResult>>

\* TickMs pass with no event
Tick ==
    /\ incomeChangeTimeout # 0 /\ expenseChangeTimeout # 0
    /\ incomeChangeTimeout' = IF incomeChangeTimeout = NoTimeout THEN NoTimeout
                               ELSE incomeChangeTimeout - TickMs
    /\ expenseChangeTimeout' = IF expenseChangeTimeout = NoTimeout THEN NoTimeout
                                ELSE expenseChangeTimeout - TickMs
    /\ burst' = [burst EXCEPT !.sinceEdit = IF @ < DebounceWindow THEN @ + TickMs ELSE @]
    /\ UNCHANGED <<storeVars, lastCall, calc, firstResult, inputs>>

FormNext ==
    \/ HandleIncomeChange
    \/ HandleExpenseChange
    \/ IncomeChangeTimeout
    \/ ExpenseChangeTimeout
    \/ HandleScenarioChange
    \/ EditScenario
    \/ Tick

FormSpec == FormInit /\ [][FormNext]_vars

----------------------------------------------------------------------------
(* Properties of the forms *)

\* a step in which the callback of a form timeout runs
TimeoutRuns ==
    \/ incomeChangeTimeout = 0 /\ incomeChangeTimeout' = NoTimeout
    \/ expenseChangeTimeout = 0 /\ expenseChangeTimeout' = NoTimeout

\* C27: after updateScenarioFromForm, each expense item written holds the
\* assignment its select shows and each person the pay frequency of the select.
C27_SelectsAreWritten ==
    [][TimeoutRuns =>
        LET written == heap'[scenarios[currentScenario]]
            housing == written.expenses.ramitCategories.fixedCosts.housing
        IN  /\ housing.rent.assignedTo = inputs.rentAssigned
            /\ housing.rentersInsurance.assignedTo = inputs.insuranceAssigned
            /\ written.expenses.ramitCategories.investments.retirement.assignedTo
                   = inputs.additionalRetirementAssigned
            /\ written.income.person1.payFrequency = inputs.person1PayFreq
            /\ written.income.person2.payFrequency = inputs.person2PayFreq]_vars

\* C28: when the forms are written into a scenario that was made current
\* after the last edit, the totals of its expense categories stay as they were.
C28_WriteBackKeepsCategoryTotals ==
    [][(TimeoutRuns /\ burst.editedUnder # currentScenario) =>
        calculateHouseholdExpenses(heap'[scenarios[currentScenario]]).value.breakdown
            = calculateHouseholdExpenses(heap[scenarios[currentScenario]]).value.breakdown]_vars

\* C23: an update is made only when no edit was made for the length of the
\* window, and it is the only update of its run of edits.
C23_OneUpdatePerBurst ==
    [][TimeoutRuns => (burst.sinceEdit >= DebounceWindow /\ ~burst.updated)]_vars

\* C26: the update that an edit scheduled writes the scenario that was
\* current when the edit was made.
C26_EditIsWrittenToItsScenario ==
    [][TimeoutRuns => currentScenario = burst.editedUnder]_vars

----------------------------------------------------------------------------
(* Properties of the scenario store *)

\* this.scenarios[n], for a name the collection holds
Obj(n) == heap[scenarios[n]]

\* the input data of a scenario: income, expenses and household
Payload(d) == [income |-> d.income, expenses |-> d.expenses, household |-> d.household]

StoreUnchanged ==
    /\ scenarios' = scenarios
    /\ heap' = heap
    /\ currentScenario' = currentScenario
    /\ stored' = stored

\* C1: once the manager is constructed, "baseline" is a key of the collection.
C1_BaselineAlwaysExists == Constructed => "baseline" \in DOMAIN scenarios

\* C2: deleteScenario("baseline") throws the protected-scenario error in every
\* state and changes neither the collection, the current pointer nor storage,
\* and triggers no callback.
C2_DeleteBaselineProtected ==
    [][(lastOp'.op = "delete" /\ lastOp'.a1 = "baseline") =>
          /\ lastOp'.result = "ProtectedScenario"
          /\ StoreUnchanged
          /\ fired' = NoFired]_vars

\* deleteScenario("baseline") was refused while "baseline" was not in the
\* collection and another scenario was current
C2_Witness ==
    /\ lastOp.op = "delete" /\ lastOp.a1 = "baseline" /\ lastOp.result = "ProtectedScenario"
    /\ "baseline" \notin DOMAIN scenarios
    /\ currentScenario = "plan"

\* C3: a deleteScenario(name) that returns true leaves "baseline" current when
\* name was current, and leaves the current pointer alone otherwise.
C3_DeleteCurrentFallsBackToBaseline ==
    [][(lastOp'.op = "delete" /\ lastOp'.result = "true") =>
          IF currentScenario = lastOp'.a1
          THEN currentScenario' = "baseline"
          ELSE currentScenario' = currentScenario]_vars

\* C4: createNewScenario with a name the collection holds throws the
\* duplicate-name error and changes nothing.
C4_CreateRejectsDuplicateName ==
    [][(lastOp'.op = "create" /\ lastOp'.a1 \in DOMAIN scenarios) =>
          /\ lastOp'.result = "DuplicateName"
          /\ StoreUnchanged]_vars

\* createNewScenario("plan", ...) was refused while "plan" was in the collection
C4_Witness ==
    /\ lastOp.op = "create" /\ lastOp.a1 = "plan" /\ lastOp.result = "DuplicateName"
    /\ "plan" \in DOMAIN scenarios

\* C5: a scenario made by createNewScenario from base B has B's income,
\* expenses and household (the built-in baseline's when B is not in the
\* collection), is an object of its own, and its making leaves every other
\* scenario as it was; an edit of one scenario, through the form or through
\* updateScenario, leaves every other scenario as it was.
C5_CreateCopiesBaseWithoutSharing ==
    [][/\ (lastOp'.op = "create" /\ lastOp'.result \in {"true", "false"}) =>
            /\ lastOp'.a1 \in DOMAIN scenarios'
            /\ Payload(heap'[scenarios'[lastOp'.a1]]) =
                 Payload(IF lastOp'.a2 \in DOMAIN scenarios
                         THEN Obj(lastOp'.a2)
                         ELSE createBaselineScenario)
            /\ \A m \in DOMAIN scenarios :
                 /\ m \in DOMAIN scenarios'
                 /\ heap'[scenarios'[m]] = Obj(m)
                 /\ scenarios'[m] # scenarios'[lastOp'.a1]
       /\ (lastOp'.op \in {"edit", "update"}) =>
            \A m \in DOMAIN scenarios \ {lastOp'.a1} :
                 /\ m \in DOMAIN scenarios'
                 /\ heap'[scenarios'[m]] = Obj(m)]_vars

\* "plan", made by createNewScenario from "baseline", was edited through the
\* form, and "baseline" still holds the built-in figures
C5_Witness ==
    /\ lastOp.op = "edit" /\ lastOp.a1 = "plan" /\ lastOp.result = "true"
    /\ {"plan", "baseline"} \subseteq DOMAIN scenarios
    /\ Obj("plan").metadata.description \in Descriptions
    /\ Obj("plan").income.salary = 90000
    /\ Payload(Obj("baseline")) = Payload(createBaselineScenario)

\* C6: duplicateScenario(source, newName) with source in the collection and
\* newName not in it adds newName with the source's income, expenses and
\* household and the description "Copy of " + the source's, and leaves the
\* source as it was; otherwise it throws and changes nothing.
C6_DuplicateCopiesSource ==
    [][(lastOp'.op = "duplicate") =>
          IF lastOp'.a1 \in DOMAIN scenarios /\ lastOp'.a2 \notin DOMAIN scenarios
          THEN /\ lastOp'.result \in {"true", "false"}
               /\ lastOp'.a2 \in DOMAIN scenarios'
               /\ Payload(heap'[scenarios'[lastOp'.a2]]) = Payload(Obj(lastOp'.a1))
               /\ heap'[scenarios'[lastOp'.a2]].metadata.description =
                    <<"Copy of ">> \o Obj(lastOp'.a1).metadata.description
               /\ heap'[scenarios'[lastOp'.a1]] = Obj(lastOp'.a1)
          ELSE /\ lastOp'.result \notin {"true", "false"}
               /\ StoreUnchanged]_vars

\* C7: setCurrentScenario(name) returns false, leaves the current pointer and
\* triggers no onScenarioChange when name is not in the collection; it returns
\* true, makes name current and triggers onScenarioChange once when it is.
C7_SetCurrentOnlyKnownNames ==
    [][(lastOp'.op = "setCurrent") =>
          IF lastOp'.a1 \in DOMAIN scenarios
          THEN /\ lastOp'.result = "true"
               /\ currentScenario' = lastOp'.a1
               /\ fired'.onScenarioChange = 1
          ELSE /\ lastOp'.result = "false"
               /\ currentScenario' = currentScenario
               /\ fired'.onScenarioChange = 0]_vars

\* C8: deleteScenario(name), for a name other than "baseline" that is not in
\* the collection, throws the not-found error and changes nothing.
C8_DeleteUnknownNotFound ==
    [][(lastOp'.op = "delete" /\ lastOp'.a1 # "baseline" /\ lastOp'.a1 \notin DOMAIN scenarios) =>
          /\ lastOp'.result = "NotFound"
          /\ StoreUnchanged]_vars

\* C9: constructing the manager over empty storage leaves exactly the three
\* built-in scenarios in the collection, with "baseline" current; constructing
\* it over storage that holds scenarios leaves storage as it was and the
\* collection holding exactly what storage holds.
C9_ConstructSeedsOnlyWhenEmpty ==
    [][(lastOp'.op = "construct") =>
          IF DOMAIN stored = {}
          THEN /\ DOMAIN scenarios' = {"baseline", "optimistic", "conservative"}
               /\ heap'[scenarios'["baseline"]] = createBaselineScenario
               /\ heap'[scenarios'["optimistic"]] = createOptimisticScenario
               /\ heap'[scenarios'["conservative"]] = createConservativeScenario
               /\ currentScenario' = "baseline"
               /\ \A n \in DOMAIN stored' :
                    stored'[n] = [heap'[scenarios'[n]] EXCEPT !.lastModified = TS]
          ELSE /\ stored' = stored
               /\ DOMAIN scenarios' = DOMAIN stored
               /\ \A n \in DOMAIN stored : heap'[scenarios'[n]] = stored[n]]_vars

\* the manager was constructed over empty storage and seeded the three
\* built-in scenarios, in memory and in storage
C9_Witness ==
    /\ lastOp.op = "construct"
    /\ DOMAIN scenarios = {"baseline", "optimistic", "conservative"}
    /\ DOMAIN stored = {"baseline", "optimistic", "conservative"}
    /\ Obj("baseline").lastModified = ABSENT
    /\ currentScenario = "baseline"

\* C10: after an import that resolved and the reload that follows it, every
\* name of the imported mapping maps to the imported scenario, in storage and
\* in the collection, and every other stored name maps to what storage held.
C10_ImportOverwritesSameNames ==
    [][(lastOp'.op = "import" /\ lastOp'.result = "resolved") =>
          /\ \A n \in DOMAIN FileContents(lastOp'.a1) :
                /\ n \in DOMAIN stored' /\ stored'[n] = FileContents(lastOp'.a1)[n]
                /\ n \in DOMAIN scenarios' /\ heap'[scenarios'[n]] = FileContents(lastOp'.a1)[n]
          /\ \A n \in DOMAIN stored \ DOMAIN FileContents(lastOp'.a1) :
                /\ n \in DOMAIN stored' /\ stored'[n] = stored[n]
                /\ n \in DOMAIN scenarios' /\ heap'[scenarios'[n]] = stored[n]]_vars

\* an import replaced a stored "plan" and kept an edited "baseline"
C10_Witness ==
    /\ lastOp.op = "import" /\ lastOp.result = "resolved" /\ lastOp.a2 = "overwrite"
    /\ {"plan", "baseline"} \subseteq DOMAIN scenarios
    /\ Obj("plan") = ImportedScenario
    /\ Obj("baseline").income.salary = 90000

\* the name a save-type operation saved under
SavedName == IF lastOp.op = "duplicate" THEN lastOp.a2 ELSE lastOp.a1

\* C22: after an operation that saved a scenario under a name and returned
\* true, what loading that name from storage yields is the scenario saved:
\* the same fields with the same values, none added and none missing.
C22_SaveThenLoadIsIdentity ==
    (lastOp.op \in {"create", "duplicate", "update", "edit"} /\ lastOp.result = "true") =>
        /\ SavedName \in DOMAIN stored
        /\ JSONClone(stored[SavedName]) = Obj(SavedName)

\* C24: once the manager is constructed, the current pointer is the name of
\* a scenario of the collection.
C24_CurrentIsInCollection == Constructed => currentScenario \in DOMAIN scenarios

\* C25: after every operation of the manager, whatever its storage writes
\* did, the names of the collection are the names in storage.
C25_MemoryNamesAreStoredNames ==
    (lastOp.op \in {"construct", "create", "duplicate", "update", "delete", "edit"}) =>
        DOMAIN scenarios = DOMAIN stored

----------------------------------------------------------------------------
(* Properties of the tax calculator *)

\* C11: every result of calculateAllTaxes reconciles: net income plus total
\* tax plus pre-tax deductions is the gross income, and the total tax is the
\* federal tax plus the state tax plus the FICA total.
C11_NetPlusTaxPlusDeductionsIsGross ==
    (lastCall.fn = "calculateAllTaxes" /\ lastCall.ret.error = "none") =>
        /\ lastCall.ret.netIncome + lastCall.ret.totalTax + lastCall.args.preTexDeductions * Scale
             = lastCall.args.grossIncome * Scale
        /\ lastCall.ret.totalTax
             = lastCall.ret.federalTax + lastCall.ret.stateTax + lastCall.ret.fica.total

\* calculateAllTaxes returned for an income with deductions, a federal tax and
\* a flat state tax that is no whole number of cents
C11_Witness ==
    /\ lastCall.fn = "calculateAllTaxes" /\ lastCall.ret.error = "none"
    /\ lastCall.args.preTexDeductions > 0
    /\ lastCall.args.state = "PA"
    /\ lastCall.ret.federalTax > 0
    /\ lastCall.ret.stateTax % 100 # 0
    /\ lastCall.ret.netIncome > 0

\* C12: for a gross income and a deduction total that are not negative, every
\* amount calculateAllTaxes returns, other than the net income, is not negative.
C12_AmountsNotNegative ==
    (/\ lastCall.fn = "calculateAllTaxes" /\ lastCall.ret.error = "none"
     /\ lastCall.args.grossIncome >= 0 /\ lastCall.args.preTexDeductions >= 0) =>
        /\ lastCall.ret.taxableIncome >= 0
        /\ lastCall.ret.federalTax >= 0
        /\ lastCall.ret.stateTax >= 0
        /\ lastCall.ret.fica.socialSecurity >= 0
        /\ lastCall.ret.fica.medicare >= 0
        /\ lastCall.ret.fica.additionalMedicare >= 0
        /\ lastCall.ret.fica.total >= 0
        /\ lastCall.ret.totalTax >= 0

\* C16: the three components calculateFICA returns are whole cents and its
\* total is their sum.
C16_FicaTotalIsSumOfRoundedParts ==
    (lastCall.fn = "calculateFICA") =>
        /\ lastCall.ret.socialSecurity % 100 = 0
        /\ lastCall.ret.medicare % 100 = 0
        /\ lastCall.ret.additionalMedicare % 100 = 0
        /\ lastCall.ret.total = RoundToCent(lastCall.ret.socialSecurity + lastCall.ret.medicare
                                            + lastCall.ret.additionalMedicare)

\* C17: for taxable incomes lower <= upper of one filing status the federal tax
\* of lower is at most that of upper, and when both lie in one bracket the
\* taxes differ by the bracket's rate times the difference of the incomes.
C17_FederalTaxMonotoneAndLinear ==
    (lastCall.fn = "calculateFederalTax") =>
        LET brackets == federalBrackets[lastCall.args.filingStatus]
        IN  /\ lastCall.ret.lower.value <= lastCall.ret.upper.value
            /\ \A i \in 1..Len(brackets) :
                 (brackets[i].min <= lastCall.args.lower /\ lastCall.args.upper <= brackets[i].max) =>
                     lastCall.ret.upper.value - lastCall.ret.lower.value
                       = (lastCall.args.upper - lastCall.args.lower) * brackets[i].rate

\* the federal tax was computed for two different incomes inside the third
\* bracket of marriedFilingJointly
C17_Witness ==
    /\ lastCall.fn = "calculateFederalTax"
    /\ lastCall.args.filingStatus = "marriedFilingJointly"
    /\ lastCall.args.lower = 93301
    /\ lastCall.args.upper = 201049
    /\ lastCall.ret.upper.value > lastCall.ret.lower.value

\* C18: at every boundary of a filing status's table the federal tax is the
\* sum, over the brackets wholly below the boundary, of the bracket's width
\* times its rate; the federal tax of 0 is 0.
C18_FederalTaxAtBoundaries ==
    (lastCall.fn = "calculateFederalTax") =>
        LET brackets == federalBrackets[lastCall.args.filingStatus]
        IN  /\ lastCall.args.upper \in Boundaries(lastCall.args.filingStatus) =>
                 lastCall.ret.upper.value = FullBracketsBelow(brackets, lastCall.args.upper, 1)
            /\ lastCall.args.lower \in Boundaries(lastCall.args.filingStatus) =>
                 lastCall.ret.lower.value = FullBracketsBelow(brackets, lastCall.args.lower, 1)
            /\ lastCall.args.lower = 0 => lastCall.ret.lower.value = 0

\* the federal tax was computed at the last boundary of headOfHousehold
C18_Witness ==
    /\ lastCall.fn = "calculateFederalTax"
    /\ lastCall.args.filingStatus = "headOfHousehold"
    /\ lastCall.args.upper = 609350
    /\ lastCall.ret.upper.value > 0

----------------------------------------------------------------------------
(* Properties of the household calculator *)

\* the scenario object a call was given
Given == heap[lastCall.args.scenario]

\* C13: setScenario or calculateScenario on a scenario whose filing status is
\* the key of no federal table throws the invalid-filing-status error, and the
\* calculator's calculations stay what they were.
C13_InvalidFilingStatusPropagates ==
    [][(/\ lastCall'.fn \in {"setScenario", "calculateScenario"}
        /\ lastCall'.args.scenario # NullRef
        /\ heap[lastCall'.args.scenario].household.filingStatus \notin DOMAIN federalBrackets) =>
          /\ lastCall'.ret.kind = "error"
          /\ lastCall'.ret.error = "InvalidFilingStatus"
          /\ calc'.calculations = calc.calculations]_vars

\* C14: calculateScenario on a scenario without its income subtree, without
\* its expenses subtree or without one of the persons returns a result, whose
\* figures for the missing part are zero.
C14_MissingPartsAreZero ==
    (/\ lastCall.fn = "calculateScenario"
     /\ lastCall.args.scenario # NullRef
     /\ \/ ~Has(Given, "income")
        \/ ~Has(Given, "expenses")
        \/ ~Has(Given.income, "person1")
        \/ ~Has(Given.income, "person2")) =>
        /\ lastCall.ret.kind = "result"
        /\ (~Has(Given, "income") \/ ~Has(Given.income, "person1")) =>
               lastCall.ret.value.person1 = getEmptyPersonCalculation
        /\ (~Has(Given, "income") \/ ~Has(Given.income, "person2")) =>
               lastCall.ret.value.person2 = getEmptyPersonCalculation
        /\ ~Has(Given, "expenses") =>
               /\ lastCall.ret.value.expenses.total = 0
               /\ \A c \in CategoryNames : lastCall.ret.value.expenses.breakdown[c] = 0

\* C15: the household effective rate of a result of calculateScenario is the
\* total tax over the gross income times 100 when the gross income is
\* positive, and the number 0 when the gross income is 0.
C15_HouseholdEffectiveRate ==
    (lastCall.fn = "calculateScenario" /\ lastCall.ret.kind = "result") =>
        LET household == lastCall.ret.value.household
        IN  household.effectiveRate =
                IF household.grossIncome > 0
                THEN Percent(household.totalTaxes, household.grossIncome)
                ELSE ZeroRate

\* every item of the tree is assigned to "shared"
RECURSIVE AllShared(_, _)
AllShared(cat, keys) ==
    \A key \in keys :
        IF Has(cat[key], "amount")
        THEN cat[key].assignedTo = "shared"
        ELSE AllShared(cat[key], DOMAIN cat[key])

\* C19: for a tree whose items are all assigned to "shared", the total for
\* person1 or person2 is half the total without a person, at every depth.
C19_SharedTreeSplitsInHalf ==
    (lastCall.fn = "calculateCategoryTotal"
     /\ AllShared(lastCall.args.category, DOMAIN lastCall.args.category)) =>
        2 * lastCall.ret.personTotal = lastCall.ret.total

\* the totals were computed for a tree with shared items at depth two and
\* three, one of an odd amount
C19_Witness ==
    /\ lastCall.fn = "calculateCategoryTotal"
    /\ lastCall.args.category =
         [fixedCosts |-> [housing |-> [rent |-> Item(1, "shared")], phone |-> Item(7, "shared")]]
    /\ lastCall.ret.total = 8 * Scale
    /\ lastCall.ret.personTotal = 4 * Scale

RECURSIVE AllAssigned(_, _)
AllAssigned(cat, keys) ==
    \A key \in keys :
        IF Has(cat[key], "amount")
        THEN cat[key].assignedTo \in {"person1", "person2", "shared"}
        ELSE AllAssigned(cat[key], DOMAIN cat[key])

\* C29: for a tree whose items are each assigned to person1, to person2 or to
\* "shared", the totals for person1 and for person2 add up to the total
\* without a person.
C29_PersonTotalsAddUp ==
    (lastCall.fn = "calculateCategoryTotal"
     /\ AllAssigned(lastCall.args.category, DOMAIN lastCall.args.category)) =>
        lastCall.ret.personTotal + lastCall.ret.otherTotal = lastCall.ret.total

\* the totals were computed for a tree of two levels that holds an item of
\* each person and a shared item of an odd amount
C29_Witness ==
    /\ lastCall.fn = "calculateCategoryTotal"
    /\ lastCall.args.person = "person1"
    /\ lastCall.args.category =
         [housing |-> [rent |-> Item(1, "shared"), insurance |-> Item(150, "person1")],
          transportation |-> [carPayment |-> Item(451, "person2")]]
    /\ lastCall.ret.total = 602 * Scale
    /\ lastCall.ret.personTotal = 150 * Scale + Scale \div 2
    /\ lastCall.ret.otherTotal = 451 * Scale + Scale \div 2

\* C30: the calculations a calculator holds are the result of
\* calculateScenario on the scenario it holds as current.
C30_CalculationsAreOfCurrentScenario ==
    (calc.currentScenario # NullRef) =>
        calc.calculations = calculateScenario(heap[calc.currentScenario])

====
